---- MODULE Spec2Model ----
(***************************************************************************)
(* Model of the request-rate governor, src/utils/rate_limiter.py           *)
(* (class RateLimiter).                                                    *)
(*                                                                         *)
(* Time is the value of time.time(), counted in whole ticks.  The token    *)
(* bucket's real-valued 'tokens' is kept exactly, in units of 1/Scale of a *)
(* token, where every window divides Scale, so that                        *)
(* time_passed * (limit / window) is an integer number of units.           *)
(* None is modelled as <<>> for optional return values and as 0 for the    *)
(* optional burst argument (set_limit only tests it with 'burst or limit', *)
(* which treats None and 0 alike).                                         *)
(***************************************************************************)
EXTENDS Integers, Sequences, FiniteSets, TLC

\* ---- bounds ----
MaxTime == 3
MaxLimit == 2
MaxWindow == 2
MaxBurst == 2
MaxCost == 3
NumThreads == 3
MaxWait == 1

Sources == {"a", "b"}
\* the sources the callers register; "b" is probed but never passed to set_limit
Registered == {"a"}
Strategies == {"token_bucket", "sliding_window", "fixed_window"}
Limits == 1..MaxLimit
WindowLens == 1..MaxWindow
Bursts == 0..MaxBurst
Costs == 1..MaxCost
Threads == 1..NumThreads

None == <<>>
Some(x) == <<x>>
NoThread == 0
NoError == "none"
NoCall == [op |-> "none", source |-> "a", cost |-> 0, ret |-> None, error |-> NoError]

RECURSIVE Factorial(_)
Factorial(n) == IF n <= 1 THEN 1 ELSE n * Factorial(n - 1)

\* number of fixed-point units in one token; every window length divides it
Scale == Factorial(MaxWindow)

Min(x, y) == IF x <= y THEN x ELSE y
\* a slip: the floor is left out
MaxDropped(x, y) == y
Max(x, y) == IF x >= y THEN x ELSE y

\* a slip: the value is rounded up instead of truncated
IntOfCeil(x) == (x + Scale - 1) \div Scale

\* Python's int() on a value held in units of 1/Scale: truncation toward zero
IntOf(x) == IF x >= 0 THEN x \div Scale ELSE -((-x) \div Scale)

\* Python's 'burst or limit'
BurstOr(burst, limit) == IF burst = 0 THEN limit ELSE burst

RECURSIVE Sum(_, _)
Sum(f, S) == IF S = {} THEN 0
             ELSE LET x == CHOOSE y \in S : TRUE IN f[x] + Sum(f, S \ {x})

Repeat(x, n) == [i \in 1..n |-> x]

\* a slip: the assignment rebinds every key of the dict
PutAll(d, k, v) == [x \in (DOMAIN d) \cup {k} |-> v]

\* d with key k bound to v (a dict assignment d[k] = v)
Put(d, k, v) == [x \in (DOMAIN d) \cup {k} |-> IF x = k THEN v ELSE d[x]]

VARIABLES
    strategy,       \* self.strategy
    limits,         \* self.limits: source -> [limit, window, burst]
    buckets,        \* self.buckets: source -> [tokens, last_refill, capacity]
    windows,        \* self.windows: source -> sequence of timestamps (a defaultdict)
    fixed_windows,  \* self.fixed_windows: source -> [count, window_start]
    lock,           \* self.lock: the thread holding it, or NoThread
    now,            \* time.time()
    last,           \* the call that has just returned, with its result
    spent,          \* history: cost admitted per source since window_start was last set
    admitted,       \* history: cost admitted per source at each instant
    pc,             \* per thread: position inside check_limit
    local,          \* per thread: the locals of the running _check_* method
    ret,            \* per thread: the value check_limit returned
    waiter          \* the caller of wait_if_needed: its position, arguments and locals

vars == <<strategy, limits, buckets, windows, fixed_windows, lock, now, last,
          spent, admitted, pc, local, ret, waiter>>

gov == <<limits, buckets, windows, fixed_windows>>
threadVars == <<lock, pc, local, ret, waiter>>

ZeroHistory == [s \in Sources |-> [t \in 0..MaxTime |-> 0]]
NoLocal == [ok |-> FALSE, val |-> None]

\* no call of wait_if_needed yet.  first, slept, admits and consumed are
\* history: the result of the first attempt, whether time.sleep was called,
\* the attempts admitted and the quota they took
IdleWaiter == [pc |-> "idle", source |-> "a", tokens |-> 0, max_wait |-> None,
               start_time |-> 0, wake |-> 0, ret |-> None,
               first |-> "none", open |-> FALSE, slept |-> FALSE,
               admits |-> 0, consumed |-> 0]

\* RateLimiter.__init__
Init ==
    /\ strategy \in Strategies
    /\ limits = <<>>
    /\ buckets = <<>>
    /\ windows = <<>>
    /\ fixed_windows = <<>>
    /\ lock = NoThread
    /\ now = 0
    /\ last = NoCall
    /\ spent = [s \in Sources |-> 0]
    /\ admitted = ZeroHistory
    /\ pc = [t \in Threads |-> "idle"]
    /\ local = [t \in Threads |-> NoLocal]
    /\ ret = [t \in Threads |-> None]
    /\ waiter = IdleWaiter

Configured(s) == s \in DOMAIN limits

\* self.windows[source] on the defaultdict: the stored deque, or a new empty one
WindowOf(s) == IF s \in DOMAIN windows THEN windows[s] ELSE <<>>

-----------------------------------------------------------------------------
\* The three algorithms, as functions of the stored values and the time read.

\* a slip: the refill is not capped at capacity
RefilledUncapped(config, bucket, t) ==
    bucket.tokens + ((t - bucket.last_refill) * config.limit * Scale) \div config.window

\* _check_token_bucket: tokens after the refill, capped at capacity
Refilled(config, bucket, t) ==
    Min(bucket.capacity * Scale,
        bucket.tokens + ((t - bucket.last_refill) * config.limit * Scale) \div config.window)

\* a slip: last_refill is not advanced when the request is rejected
check_token_bucket_stale(config, bucket, t, tokens) ==
    LET r == Min(bucket.capacity * Scale,
                 bucket.tokens + ((t - bucket.last_refill) * config.limit * Scale) \div config.window)
    IN
    IF r >= tokens * Scale
    THEN [ok |-> TRUE,
          val |-> [tokens |-> r - tokens * Scale, last_refill |-> t, capacity |-> bucket.capacity]]
    ELSE [ok |-> FALSE,
          val |-> [tokens |-> r, last_refill |-> bucket.last_refill, capacity |-> bucket.capacity]]

\* a slip: the refill is stored only when the request is admitted
check_token_bucket_lossy(config, bucket, t, tokens) ==
    LET r == Refilled(config, bucket, t) IN
    IF r >= tokens * Scale
    THEN [ok |-> TRUE,
          val |-> [tokens |-> r - tokens * Scale, last_refill |-> t, capacity |-> bucket.capacity]]
    ELSE [ok |-> FALSE,
          val |-> [tokens |-> bucket.tokens, last_refill |-> t, capacity |-> bucket.capacity]]

check_token_bucket(config, bucket, t, tokens) ==
    LET r == Refilled(config, bucket, t) IN
    IF r >= tokens * Scale
    THEN [ok |-> TRUE,
          val |-> [tokens |-> r - tokens * Scale, last_refill |-> t, capacity |-> bucket.capacity]]
    ELSE [ok |-> FALSE,
          val |-> [tokens |-> r, last_refill |-> t, capacity |-> bucket.capacity]]

\* a slip: no timestamp is ever dropped
PopStaleNone(window, window_start) == window

\* a slip: a timestamp exactly one window old is dropped too
RECURSIVE PopStaleInclusive(_, _)
PopStaleInclusive(window, window_start) ==
    IF window # <<>> /\ Head(window) <= window_start
    THEN PopStaleInclusive(Tail(window), window_start)
    ELSE window

\* while window and window[0] < window_start: window.popleft()
RECURSIVE PopStale(_, _)
PopStale(window, window_start) ==
    IF window # <<>> /\ Head(window) < window_start
    THEN PopStale(Tail(window), window_start)
    ELSE window

\* a slip: the request is recorded before it is decided
check_sliding_window_eager(config, window, t, tokens) ==
    LET w == PopStale(window, t - config.window) IN
    IF Len(w) + tokens <= config.limit
    THEN [ok |-> TRUE, val |-> w \o Repeat(t, tokens)]
    ELSE [ok |-> FALSE, val |-> w \o Repeat(t, tokens)]

\* a slip: one timestamp is recorded whatever the cost
check_sliding_window_single(config, window, t, tokens) ==
    LET w == PopStale(window, t - config.window) IN
    IF Len(w) + tokens <= config.limit
    THEN [ok |-> TRUE, val |-> Append(w, t)]
    ELSE [ok |-> FALSE, val |-> w]

check_sliding_window(config, window, t, tokens) ==
    LET w == PopStale(window, t - config.window) IN
    IF Len(w) + tokens <= config.limit
    THEN [ok |-> TRUE, val |-> w \o Repeat(t, tokens)]
    ELSE [ok |-> FALSE, val |-> w]

\* a slip: the window is reset one tick before it has elapsed
RolledOverEarly(config, window_state, t) ==
    IF t - window_state.window_start >= config.window - 1
    THEN [count |-> 0, window_start |-> t]
    ELSE window_state

\* a slip: the window is reset only after more than window has passed
RolledOverStrict(config, window_state, t) ==
    IF t - window_state.window_start > config.window
    THEN [count |-> 0, window_start |-> t]
    ELSE window_state

\* the rollover at the head of _check_fixed_window
RolledOver(config, window_state, t) ==
    IF t - window_state.window_start >= config.window
    THEN [count |-> 0, window_start |-> t]
    ELSE window_state

\* a slip: the test leaves the cost out
check_fixed_window_nocost(config, window_state, t, tokens) ==
    LET w == RolledOver(config, window_state, t) IN
    IF w.count + 1 <= config.limit
    THEN [ok |-> TRUE, val |-> [count |-> w.count + tokens, window_start |-> w.window_start]]
    ELSE [ok |-> FALSE, val |-> w]

check_fixed_window(config, window_state, t, tokens) ==
    LET w == RolledOver(config, window_state, t) IN
    IF w.count + tokens <= config.limit
    THEN [ok |-> TRUE, val |-> [count |-> w.count + tokens, window_start |-> w.window_start]]
    ELSE [ok |-> FALSE, val |-> w]

\* the body of check_limit under the lock: the dispatch on self.strategy
Dispatch(s, t, tokens) ==
    IF strategy = "token_bucket" THEN check_token_bucket(limits[s], buckets[s], t, tokens)
    ELSE IF strategy = "sliding_window" THEN check_sliding_window(limits[s], WindowOf(s), t, tokens)
    ELSE IF strategy = "fixed_window" THEN check_fixed_window(limits[s], fixed_windows[s], t, tokens)
    ELSE [ok |-> TRUE, val |-> None]

\* the stores of the _check_* method into the per-source state
Commit(s, r) ==
    /\ buckets' = IF strategy = "token_bucket" THEN Put(buckets, s, r.val) ELSE buckets
    /\ windows' = IF strategy = "sliding_window" THEN Put(windows, s, r.val) ELSE windows
    /\ fixed_windows' = IF strategy = "fixed_window" THEN Put(fixed_windows, s, r.val)
                        ELSE fixed_windows

\* whether the _check_* method assigned window_state['window_start']
Rolls(s, t) ==
    /\ strategy = "fixed_window"
    /\ t - fixed_windows[s].window_start >= limits[s].window

-----------------------------------------------------------------------------
\* Introspection

get_remaining_quota(s) ==
    IF ~Configured(s) THEN None
    ELSE LET config == limits[s] IN
         IF strategy = "token_bucket"
         THEN Some(IntOf(Refilled(config, buckets[s], now)))
         ELSE IF strategy = "sliding_window"
         THEN LET window == WindowOf(s)
                  valid_requests ==
                      Cardinality({i \in 1..Len(window) : window[i] >= now - config.window})
              IN Some(Max(0, config.limit - valid_requests))
         ELSE IF strategy = "fixed_window"
         THEN LET window_state == fixed_windows[s] IN
              IF now - window_state.window_start >= config.window
              THEN Some(config.limit)
              ELSE Some(Max(0, config.limit - window_state.count))
         ELSE None

\* the defaultdict lookup self.windows[source] stores an empty deque for a new key
TouchWindow(s) ==
    IF strategy = "sliding_window" /\ Configured(s) /\ s \notin DOMAIN windows
    THEN Put(windows, s, <<>>)
    ELSE windows


\* one unit of a reset time is 1/TimeUnit of a tick (every limit divides LimitScale)
LimitScale == Factorial(MaxLimit)
TimeUnit == Scale * LimitScale

RECURSIVE MinOf(_)
MinOf(window) ==
    IF Len(window) = 1 THEN Head(window) ELSE Min(Head(window), MinOf(Tail(window)))

get_reset_time(s) ==
    IF ~Configured(s) THEN None
    ELSE LET config == limits[s] IN
         IF strategy = "token_bucket"
         THEN LET bucket == buckets[s] IN
              IF bucket.tokens >= config.limit * Scale
              THEN Some(now * TimeUnit)
              ELSE LET tokens_needed == config.limit * Scale - bucket.tokens
                       time_needed == (tokens_needed * config.window * LimitScale) \div config.limit
                   IN Some(now * TimeUnit + time_needed)
         ELSE IF strategy = "sliding_window"
         THEN LET window == WindowOf(s) IN
              IF window = <<>> THEN Some(now * TimeUnit)
              ELSE Some((MinOf(window) + config.window) * TimeUnit)
         ELSE IF strategy = "fixed_window"
         THEN Some((fixed_windows[s].window_start + config.window) * TimeUnit)
         ELSE None

NoLimitConfigured == [error |-> "No limit configured for this source"]

get_status(s) ==
    IF ~Configured(s) THEN NoLimitConfigured
    ELSE [source |-> s,
          strategy |-> strategy,
          limit |-> limits[s].limit,
          window |-> limits[s].window,
          remaining |-> get_remaining_quota(s),
          reset_time |-> get_reset_time(s),
          burst |-> limits[s].burst]

-----------------------------------------------------------------------------
\* The operations, each called by a single caller and run to completion.

Returned(op, s, cost, r) ==
    [op |-> op, source |-> s, cost |-> cost, ret |-> r, error |-> NoError]

\* the call ended with an exception instead of a return value
Raised(op, s, cost, e) ==
    [op |-> op, source |-> s, cost |-> cost, ret |-> None, error |-> e]

set_limit(s, limit, window, burst) ==
    /\ lock = NoThread
    /\ limits' = Put(limits, s, [limit |-> limit, window |-> window,
                                 burst |-> BurstOr(burst, limit)])
    /\ buckets' = IF strategy = "token_bucket"
                  THEN Put(buckets, s, [tokens |-> limit * Scale,
                                        last_refill |-> now,
                                        capacity |-> BurstOr(burst, limit)])
                  ELSE buckets
    /\ fixed_windows' = IF strategy = "fixed_window"
                        THEN Put(fixed_windows, s, [count |-> 0, window_start |-> now])
                        ELSE fixed_windows
    /\ spent' = IF strategy = "fixed_window" THEN [spent EXCEPT ![s] = 0] ELSE spent
    /\ last' = Returned("set_limit", s, 0, None)
    /\ UNCHANGED <<strategy, windows, now, threadVars>>

\* check_limit on a source that is in self.limits: the locked dispatch
check_configured(s, tokens) ==
    LET r == Dispatch(s, now, tokens) IN
    /\ Commit(s, r)
    /\ last' = Returned("check_limit", s, tokens, r.ok)
    /\ spent' = IF strategy = "fixed_window"
                THEN [spent EXCEPT ![s] = (IF Rolls(s, now) THEN 0 ELSE @)
                                          + (IF r.ok THEN tokens ELSE 0)]
                ELSE spent
    /\ UNCHANGED limits

\* a slip: a source that is not in self.limits is refused instead of admitted
check_limit_closed(s, tokens) ==
    /\ lock = NoThread
    /\ IF ~Configured(s)
       THEN /\ last' = Returned("check_limit", s, tokens, FALSE)
            /\ UNCHANGED <<gov, spent>>
       ELSE check_configured(s, tokens)
    /\ UNCHANGED <<strategy, now, threadVars>>

check_limit(s, tokens) ==
    /\ lock = NoThread
    /\ IF ~Configured(s)
       THEN /\ last' = Returned("check_limit", s, tokens, TRUE)
            /\ UNCHANGED <<gov, spent>>
       ELSE check_configured(s, tokens)
    /\ UNCHANGED <<strategy, now, threadVars>>

reset_limit(s) ==
    /\ lock = NoThread
    /\ buckets' = IF Configured(s) /\ strategy = "token_bucket" /\ s \in DOMAIN buckets
                  THEN Put(buckets, s, [tokens |-> limits[s].limit * Scale,
                                        last_refill |-> now,
                                        capacity |-> limits[s].burst])
                  ELSE buckets
    /\ windows' = IF Configured(s) /\ strategy = "sliding_window" /\ s \in DOMAIN windows
                  THEN Put(windows, s, <<>>)
                  ELSE windows
    /\ fixed_windows' = IF Configured(s) /\ strategy = "fixed_window"
                           /\ s \in DOMAIN fixed_windows
                        THEN Put(fixed_windows, s, [count |-> 0, window_start |-> now])
                        ELSE fixed_windows
    /\ spent' = IF Configured(s) /\ strategy = "fixed_window" /\ s \in DOMAIN fixed_windows
                THEN [spent EXCEPT ![s] = 0] ELSE spent
    /\ last' = Returned("reset_limit", s, 0, None)
    /\ UNCHANGED <<strategy, limits, now, threadVars>>

\* a slip: the sweep drops one stale timestamp per source instead of all
cleanup_expired_once ==
    /\ lock = NoThread
    /\ windows' = [s \in DOMAIN windows |->
                     IF Configured(s) /\ windows[s] # <<>>
                        /\ Head(windows[s]) < now - limits[s].window
                     THEN Tail(windows[s])
                     ELSE windows[s]]
    /\ fixed_windows' = [s \in DOMAIN fixed_windows |->
                           IF Configured(s)
                           THEN RolledOver(limits[s], fixed_windows[s], now)
                           ELSE fixed_windows[s]]
    /\ spent' = [s \in Sources |->
                   IF s \in DOMAIN fixed_windows /\ Configured(s) /\ Rolls(s, now)
                   THEN 0 ELSE spent[s]]
    /\ last' = Returned("cleanup_expired", "a", 0, None)
    /\ UNCHANGED <<strategy, limits, buckets, now, threadVars>>

cleanup_expired ==
    /\ lock = NoThread
    /\ windows' = [s \in DOMAIN windows |->
                     IF Configured(s)
                     THEN PopStale(windows[s], now - limits[s].window)
                     ELSE windows[s]]
    /\ fixed_windows' = [s \in DOMAIN fixed_windows |->
                           IF Configured(s)
                           THEN RolledOver(limits[s], fixed_windows[s], now)
                           ELSE fixed_windows[s]]
    /\ spent' = [s \in Sources |->
                   IF s \in DOMAIN fixed_windows /\ Configured(s) /\ Rolls(s, now)
                   THEN 0 ELSE spent[s]]
    /\ last' = Returned("cleanup_expired", "a", 0, None)
    /\ UNCHANGED <<strategy, limits, buckets, now, threadVars>>

\* a slip: the introspection stores the refilled tokens without advancing last_refill
GetRemainingQuotaStoring(s) ==
    /\ lock = NoThread
    /\ windows' = TouchWindow(s)
    /\ buckets' = IF Configured(s) /\ strategy = "token_bucket"
                  THEN [buckets EXCEPT ![s].tokens = Refilled(limits[s], buckets[s], now)]
                  ELSE buckets
    /\ last' = Returned("get_remaining_quota", s, 0, get_remaining_quota(s))
    /\ UNCHANGED <<strategy, limits, fixed_windows, now, spent, threadVars>>

GetRemainingQuota(s) ==
    /\ lock = NoThread
    /\ windows' = TouchWindow(s)
    /\ last' = Returned("get_remaining_quota", s, 0, get_remaining_quota(s))
    /\ UNCHANGED <<strategy, limits, buckets, fixed_windows, now, spent, threadVars>>

GetStatus(s) ==
    /\ lock = NoThread
    /\ windows' = TouchWindow(s)
    /\ last' = Returned("get_status", s, 0, get_status(s))
    /\ UNCHANGED <<strategy, limits, buckets, fixed_windows, now, spent, threadVars>>

GetResetTime(s) ==
    /\ lock = NoThread
    /\ windows' = TouchWindow(s)
    /\ last' = Returned("get_reset_time", s, 0, get_reset_time(s))
    /\ UNCHANGED <<strategy, limits, buckets, fixed_windows, now, spent, threadVars>>

\* time.time() advances between calls
Tick ==
    /\ now < MaxTime
    /\ now' = now + 1
    /\ last' = NoCall
    /\ UNCHANGED <<strategy, gov, spent, admitted, threadVars>>

SetLimit == \E s \in Registered, limit \in Limits, window \in WindowLens, burst \in Bursts :
                set_limit(s, limit, window, burst) /\ UNCHANGED admitted
CheckLimit == \E s \in Sources, tokens \in Costs : check_limit(s, tokens) /\ UNCHANGED admitted
ResetLimit == \E s \in Sources : reset_limit(s) /\ UNCHANGED admitted
CleanupExpired == cleanup_expired /\ UNCHANGED admitted
RemainingQuota == \E s \in Sources : GetRemainingQuota(s) /\ UNCHANGED admitted
Status == \E s \in Sources : GetStatus(s) /\ UNCHANGED admitted
ResetTime == \E s \in Sources : GetResetTime(s) /\ UNCHANGED admitted

Next ==
    \/ SetLimit
    \/ CheckLimit
    \/ ResetLimit
    \/ CleanupExpired
    \/ RemainingQuota
    \/ Status
    \/ ResetTime
    \/ Tick

Spec == Init /\ [][Next]_vars


-----------------------------------------------------------------------------
\* A source configured once and never re-registered or reset, with the cost
\* admitted at each instant recorded.

SetLimitOnce == \E s \in Registered, limit \in Limits, window \in WindowLens, burst \in Bursts :
                    /\ ~Configured(s)
                    /\ set_limit(s, limit, window, burst)
                    /\ UNCHANGED admitted

CheckLimitLogged == \E s \in Registered, tokens \in Costs :
                        /\ Configured(s)
                        /\ check_limit(s, tokens)
                        /\ admitted' = [admitted EXCEPT ![s][now] =
                                            @ + (IF last'.ret THEN tokens ELSE 0)]

NextOnce ==
    \/ SetLimitOnce
    \/ CheckLimitLogged
    \/ CleanupExpired
    \/ RemainingQuota
    \/ Tick

SpecOnce == Init /\ [][NextOnce]_vars

-----------------------------------------------------------------------------
\* Concurrent callers of check_limit(SharedSource, 1) on one governor.  The
\* main thread registers the source with burst = limit before it starts them.

SharedSource == "a"

SetLimitShared == \E limit \in {l \in Limits : l < NumThreads}, window \in WindowLens :
                      /\ ~Configured(SharedSource)
                      /\ set_limit(SharedSource, limit, window, limit)
                      /\ UNCHANGED admitted

\* a slip: the dispatch is not guarded by the lock
LockIgnored(t) == TRUE

\* 'with self.lock:' can be entered (an RLock: also by the thread that holds it)
LockAvailable(t) == lock = NoThread \/ lock = t

threadFrame == <<strategy, now, spent, admitted, waiter>>

\* check_limit entered: the test 'source not in self.limits', made without the lock
Enter(t) ==
    /\ pc[t] = "idle"
    /\ Configured(SharedSource)
    /\ IF ~Configured(SharedSource)
       THEN /\ pc' = [pc EXCEPT ![t] = "done"]
            /\ ret' = [ret EXCEPT ![t] = Some(TRUE)]
       ELSE /\ pc' = [pc EXCEPT ![t] = "acquire"]
            /\ ret' = ret
    /\ last' = NoCall
    /\ UNCHANGED <<gov, lock, local, threadFrame>>

\* with self.lock:
Acquire(t) ==
    /\ pc[t] = "acquire"
    /\ LockAvailable(t)
    /\ lock' = t
    /\ pc' = [pc EXCEPT ![t] = "locked"]
    /\ last' = NoCall
    /\ UNCHANGED <<gov, local, ret, threadFrame>>

\* the _check_* method reads the time and the stored state and decides
Decide(t) ==
    /\ pc[t] = "locked"
    /\ local' = [local EXCEPT ![t] = Dispatch(SharedSource, now, 1)]
    /\ pc' = [pc EXCEPT ![t] = "store"]
    /\ last' = NoCall
    /\ UNCHANGED <<gov, lock, ret, threadFrame>>

\* it stores the new state and returns, which releases the lock
Store(t) ==
    /\ pc[t] = "store"
    /\ Commit(SharedSource, local[t])
    /\ ret' = [ret EXCEPT ![t] = Some(local[t].ok)]
    /\ local' = [local EXCEPT ![t] = NoLocal]
    /\ lock' = NoThread
    /\ pc' = [pc EXCEPT ![t] = "done"]
    /\ last' = NoCall
    /\ UNCHANGED <<limits, threadFrame>>

ThreadEnter == \E t \in Threads : Enter(t)
ThreadAcquire == \E t \in Threads : Acquire(t)
ThreadDecide == \E t \in Threads : Decide(t)
ThreadStore == \E t \in Threads : Store(t)

NextConc ==
    \/ SetLimitShared
    \/ ThreadEnter
    \/ ThreadAcquire
    \/ ThreadDecide
    \/ ThreadStore

SpecConc == Init /\ [][NextConc]_vars

-----------------------------------------------------------------------------
\* Threads that call set_limit, check_limit(SharedSource, 1) and get_status
\* on one source at one instant, each thread one call after the other.
\* set_limit stores the configuration and then the algorithm state inside
\* one 'with self.lock:' block; get_status reads the configuration without
\* the lock and takes the lock twice, in get_remaining_quota and in
\* get_reset_time.

\* the thread that calls get_status; the others call set_limit and check_limit
StatusCaller == NumThreads

CallArgs(limit, window, burst) ==
    [ok |-> FALSE, val |-> [limit |-> limit, window |-> window, burst |-> burst]]

\* set_limit entered with its arguments
SetEnter(t, limit, window, burst) ==
    /\ pc[t] = "idle"
    /\ pc' = [pc EXCEPT ![t] = "set_acquire"]
    /\ local' = [local EXCEPT ![t] = CallArgs(limit, window, burst)]
    /\ last' = NoCall
    /\ UNCHANGED <<gov, lock, ret, threadFrame>>

\* set_limit: with self.lock
SetAcquire(t) ==
    /\ pc[t] = "set_acquire"
    /\ LockAvailable(t)
    /\ lock' = t
    /\ pc' = [pc EXCEPT ![t] = "set_limits"]
    /\ last' = NoCall
    /\ UNCHANGED <<gov, local, ret, threadFrame>>

\* self.limits[source] = {...}
SetStoreLimits(t) ==
    /\ pc[t] = "set_limits"
    /\ limits' = Put(limits, SharedSource,
                     [limit |-> local[t].val.limit, window |-> local[t].val.window,
                      burst |-> BurstOr(local[t].val.burst, local[t].val.limit)])
    /\ pc' = [pc EXCEPT ![t] = "set_state"]
    /\ last' = NoCall
    /\ UNCHANGED <<buckets, windows, fixed_windows, lock, local, ret, threadFrame>>

\* the store of the strategy's state; the with block ends and set_limit returns
SetStoreState(t) ==
    /\ pc[t] = "set_state"
    /\ buckets' = IF strategy = "token_bucket"
                  THEN Put(buckets, SharedSource,
                           [tokens |-> local[t].val.limit * Scale,
                            last_refill |-> now,
                            capacity |-> BurstOr(local[t].val.burst, local[t].val.limit)])
                  ELSE buckets
    /\ fixed_windows' = IF strategy = "fixed_window"
                        THEN Put(fixed_windows, SharedSource,
                                 [count |-> 0, window_start |-> now])
                        ELSE fixed_windows
    /\ lock' = NoThread
    /\ pc' = [pc EXCEPT ![t] = "set_done"]
    /\ local' = [local EXCEPT ![t] = NoLocal]
    /\ last' = NoCall
    /\ UNCHANGED <<limits, windows, ret, threadFrame>>

\* get_status: the test 'source not in self.limits' and config = self.limits[source]
StatusEnter(t) ==
    /\ pc[t] = "idle"
    /\ IF ~Configured(SharedSource)
       THEN /\ pc' = [pc EXCEPT ![t] = "status_done"]
            /\ ret' = [ret EXCEPT ![t] = Some(NoLimitConfigured)]
            /\ local' = local
       ELSE /\ pc' = [pc EXCEPT ![t] = "status_remaining"]
            /\ ret' = ret
            /\ local' = [local EXCEPT ![t] =
                            [ok |-> TRUE, val |-> [config |-> limits[SharedSource],
                                                   remaining |-> None]]]
    /\ last' = NoCall
    /\ UNCHANGED <<gov, lock, threadFrame>>

\* remaining = self.get_remaining_quota(source), which takes and leaves the lock
StatusRemaining(t) ==
    /\ pc[t] = "status_remaining"
    /\ lock = NoThread
    /\ windows' = TouchWindow(SharedSource)
    /\ local' = [local EXCEPT ![t].val.remaining = get_remaining_quota(SharedSource)]
    /\ pc' = [pc EXCEPT ![t] = "status_reset"]
    /\ last' = NoCall
    /\ UNCHANGED <<limits, buckets, fixed_windows, lock, ret, threadFrame>>

\* reset_time = self.get_reset_time(source), under the lock again, and the
\* snapshot is built from config, remaining and reset_time
StatusReset(t) ==
    /\ pc[t] = "status_reset"
    /\ lock = NoThread
    /\ windows' = TouchWindow(SharedSource)
    /\ ret' = [ret EXCEPT ![t] =
                  Some([source |-> SharedSource,
                        strategy |-> strategy,
                        limit |-> local[t].val.config.limit,
                        window |-> local[t].val.config.window,
                        remaining |-> local[t].val.remaining,
                        reset_time |-> get_reset_time(SharedSource),
                        burst |-> local[t].val.config.burst])]
    /\ local' = [local EXCEPT ![t] = NoLocal]
    /\ pc' = [pc EXCEPT ![t] = "status_done"]
    /\ last' = NoCall
    /\ UNCHANGED <<limits, buckets, fixed_windows, lock, threadFrame>>

\* the thread's call has returned and it is free to make another
Again(t) ==
    /\ pc[t] \in {"done", "set_done", "status_done"}
    /\ pc' = [pc EXCEPT ![t] = "idle"]
    /\ ret' = [ret EXCEPT ![t] = None]
    /\ last' = NoCall
    /\ UNCHANGED <<gov, lock, local, threadFrame>>

ThreadSetEnter == \E t \in Threads \ {StatusCaller}, limit \in Limits :
                      SetEnter(t, limit, MaxWindow, 0)
ThreadSetAcquire == \E t \in Threads : SetAcquire(t)
ThreadSetStoreLimits == \E t \in Threads : SetStoreLimits(t)
ThreadSetStoreState == \E t \in Threads : SetStoreState(t)
ThreadStatusEnter == StatusEnter(StatusCaller)
ThreadStatusRemaining == \E t \in Threads : StatusRemaining(t)
ThreadStatusReset == \E t \in Threads : StatusReset(t)
ThreadAgain == \E t \in Threads : Again(t)

NextRace ==
    \/ ThreadSetEnter
    \/ ThreadSetAcquire
    \/ ThreadSetStoreLimits
    \/ ThreadSetStoreState
    \/ ThreadEnter
    \/ ThreadAcquire
    \/ ThreadDecide
    \/ ThreadStore
    \/ ThreadStatusEnter
    \/ ThreadStatusRemaining
    \/ ThreadStatusReset
    \/ ThreadAgain

SpecRace == Init /\ [][NextRace]_vars

-----------------------------------------------------------------------------
\* Two registered sources on one governor, each registered and re-registered
\* with the largest limit and the longest window and checked one unit at a time.

PairSetLimit == \E s \in Sources, limit \in {MaxLimit}, window \in {MaxWindow} :
                    set_limit(s, limit, window, 0) /\ UNCHANGED admitted
PairCheckLimit == \E s \in Sources : check_limit(s, 1) /\ UNCHANGED admitted

NextPair ==
    \/ PairSetLimit
    \/ PairCheckLimit
    \/ ResetLimit
    \/ RemainingQuota
    \/ Status
    \/ ResetTime
    \/ Tick

SpecPair == Init /\ [][NextPair]_vars

-----------------------------------------------------------------------------
\* wait_if_needed, called by one thread while other callers use the governor.

\* the lock owner id of the thread inside wait_if_needed
Waiter == NumThreads + 1

MaxWaits == {None} \cup {Some(n) : n \in 0..MaxWait}

\* Python's truth value of the max_wait argument
Truthy(max_wait) == max_wait # None /\ max_wait[1] # 0

\* a slip: the with block is not left before the method returns
LockKept(t) == t

\* self.lock once the thread has left its 'with self.lock:' block
Released(t) == NoThread

waitFrame == <<strategy, now, admitted, pc, local, ret>>

\* start_time = time.time(); the locals start_time and max_wait end with the
\* call, so the record forgets them when pc becomes "done"
WaitCall(s, tokens, max_wait) ==
    /\ waiter.pc = "idle"
    /\ waiter' = [IdleWaiter EXCEPT !.pc = "test", !.source = s, !.tokens = tokens,
                                    !.max_wait = max_wait, !.start_time = now]
    /\ last' = NoCall
    /\ UNCHANGED <<gov, lock, spent, waitFrame>>

\* while not self.check_limit(...): the test 'source not in self.limits'
WaitTest ==
    /\ waiter.pc = "test"
    /\ IF ~Configured(waiter.source)
       THEN waiter' = [waiter EXCEPT !.pc = "done", !.ret = Some(TRUE),
                                     !.start_time = 0, !.max_wait = None,
                                     !.admits = @ + 1, !.open = TRUE,
                                     !.first = IF @ = "none" THEN "admitted" ELSE @]
       ELSE waiter' = [waiter EXCEPT !.pc = "acquire"]
    /\ last' = NoCall
    /\ UNCHANGED <<gov, lock, spent, waitFrame>>

\* check_limit: with self.lock
WaitAcquire ==
    /\ waiter.pc = "acquire"
    /\ LockAvailable(Waiter)
    /\ lock' = Waiter
    /\ waiter' = [waiter EXCEPT !.pc = "locked"]
    /\ last' = NoCall
    /\ UNCHANGED <<gov, spent, waitFrame>>

\* a slip: the deadline is looked at before the result of the attempt
WaitCheckDeadlineFirst(s, tokens) ==
    /\ waiter.pc = "locked"
    /\ waiter.source = s
    /\ waiter.tokens = tokens
    /\ UNCHANGED waitFrame
    /\ check_configured(s, tokens)
    /\ lock' = Released(Waiter)
    /\ LET expired == Truthy(waiter.max_wait)
                        /\ now - waiter.start_time >= waiter.max_wait[1]
       IN waiter' = [waiter EXCEPT
             !.pc = IF last'.ret /\ ~expired THEN "done" ELSE "deadline",
             !.ret = IF last'.ret /\ ~expired THEN Some(TRUE) ELSE @,
             !.start_time = IF last'.ret /\ ~expired THEN 0 ELSE @,
             !.max_wait = IF last'.ret /\ ~expired THEN None ELSE @,
             !.admits = IF last'.ret THEN @ + 1 ELSE @,
             !.consumed = @ + get_remaining_quota(s)[1] - get_remaining_quota(s)'[1],
             !.first = IF @ = "none"
                       THEN (IF last'.ret THEN "admitted" ELSE "rejected") ELSE @]

\* check_limit: the _check_* method runs and returns, which releases the lock;
\* the loop ends with 'return True' when the attempt was admitted
WaitCheckOn(s, tokens) ==
    /\ waiter.pc = "locked"
    /\ waiter.source = s
    /\ waiter.tokens = tokens
    /\ UNCHANGED waitFrame
    /\ check_configured(s, tokens)
    /\ lock' = Released(Waiter)
    /\ waiter' = [waiter EXCEPT
          !.pc = IF last'.ret THEN "done" ELSE "deadline",
          !.ret = IF last'.ret THEN Some(TRUE) ELSE @,
          !.start_time = IF last'.ret THEN 0 ELSE @,
          !.max_wait = IF last'.ret THEN None ELSE @,
          !.admits = IF last'.ret THEN @ + 1 ELSE @,
          !.consumed = @ + get_remaining_quota(s)[1] - get_remaining_quota(s)'[1],
          !.first = IF @ = "none"
                    THEN (IF last'.ret THEN "admitted" ELSE "rejected") ELSE @]

WaitCheck == \E s \in Registered, tokens \in Costs : WaitCheckOn(s, tokens)

\* if max_wait and (time.time() - start_time) >= max_wait: return False
WaitDeadline ==
    /\ waiter.pc = "deadline"
    /\ IF Truthy(waiter.max_wait) /\ now - waiter.start_time >= waiter.max_wait[1]
       THEN waiter' = [waiter EXCEPT !.pc = "done", !.ret = Some(FALSE),
                                     !.start_time = 0, !.max_wait = None]
       ELSE waiter' = [waiter EXCEPT !.pc = "reset"]
    /\ last' = NoCall
    /\ UNCHANGED <<gov, lock, spent, waitFrame>>

\* get_reset_time: with self.lock
WaitResetAcquire ==
    /\ waiter.pc = "reset"
    /\ LockAvailable(Waiter)
    /\ lock' = Waiter
    /\ waiter' = [waiter EXCEPT !.pc = "reset_locked"]
    /\ last' = NoCall
    /\ UNCHANGED <<gov, spent, waitFrame>>

\* the time.sleep argument: min(1.0, reset_time - now) or the default 0.1,
\* in units of 1/TimeUnit; 0 when time.sleep is not called
SleepTime(reset_time) ==
    IF reset_time # None
    THEN Max(0, Min(TimeUnit, reset_time[1] - now * TimeUnit))
    ELSE Max(1, TimeUnit \div 10)

\* get_reset_time returns and the thread sleeps, or polls again at once
WaitReset ==
    /\ waiter.pc = "reset_locked"
    /\ windows' = TouchWindow(waiter.source)
    /\ lock' = Released(Waiter)
    /\ LET wait_time == SleepTime(get_reset_time(waiter.source)) IN
       waiter' = IF wait_time > 0
                 THEN [waiter EXCEPT !.pc = "sleep", !.slept = TRUE,
                                     !.wake = now * TimeUnit + wait_time]
                 ELSE [waiter EXCEPT !.pc = "test"]
    /\ last' = NoCall
    /\ UNCHANGED <<limits, buckets, fixed_windows, spent, waitFrame>>

\* time.sleep returns no earlier than asked
WaitWake ==
    /\ waiter.pc = "sleep"
    /\ now * TimeUnit >= waiter.wake
    /\ waiter' = [waiter EXCEPT !.pc = "test", !.wake = 0]
    /\ last' = NoCall
    /\ UNCHANGED <<gov, lock, spent, waitFrame>>

WaitIfNeeded == \E s \in Registered, tokens \in {1, MaxCost}, max_wait \in MaxWaits :
                    WaitCall(s, tokens, max_wait)

\* the other callers: one source, registered and re-registered with the
\* longest window, and checks of one unit
OtherSetLimit == \E s \in Registered, limit \in Limits, window \in {MaxWindow} :
                     set_limit(s, limit, window, 0) /\ UNCHANGED admitted
OtherCheckLimit == \E s \in Registered : check_limit(s, 1) /\ UNCHANGED admitted

NextWait ==
    \/ WaitIfNeeded
    \/ WaitTest
    \/ WaitAcquire
    \/ WaitCheck
    \/ WaitDeadline
    \/ WaitResetAcquire
    \/ WaitReset
    \/ WaitWake
    \/ OtherSetLimit
    \/ OtherCheckLimit
    \/ ResetLimit
    \/ CleanupExpired
    \/ Tick

SpecWait == Init /\ [][NextWait]_vars


-----------------------------------------------------------------------------
\* A single caller of wait_if_needed(source, cost, max_wait=None) with
\* cost <= limit on a source registered with burst >= limit.  The other callers
\* act only before the call.  The call is made early enough for a whole
\* window to pass before the clock of the model stops at MaxTime, and one
\* poll (check_limit, the deadline test, get_reset_time) takes less than a
\* tick: the clock moves between polls and during time.sleep.

LiveSetLimit == \E s \in Registered, limit \in Limits, window \in WindowLens, burst \in Bursts :
                    /\ burst = 0 \/ burst >= limit
                    /\ waiter.pc = "idle"
                    /\ set_limit(s, limit, window, burst)
                    /\ UNCHANGED admitted

LiveCheckLimit == \E s \in Registered, tokens \in Costs :
                      /\ waiter.pc = "idle"
                      /\ check_limit(s, tokens)
                      /\ UNCHANGED admitted

LiveWaitCall == \E s \in Registered, tokens \in Costs :
                    /\ Configured(s)
                    /\ tokens <= limits[s].limit
                    /\ now + limits[s].window + 1 <= MaxTime
                    /\ WaitCall(s, tokens, None)

\* the steps of the thread inside wait_if_needed
WaitStep ==
    \/ WaitTest
    \/ WaitAcquire
    \/ WaitCheck
    \/ WaitDeadline
    \/ WaitResetAcquire
    \/ WaitReset
    \/ WaitWake

LiveTick == waiter.pc \in {"idle", "test", "sleep", "done"} /\ Tick

NextLive ==
    \/ LiveSetLimit
    \/ LiveCheckLimit
    \/ LiveWaitCall
    \/ WaitStep
    \/ LiveTick

\* the thread is scheduled again and again, and the clock goes on also while
\* the thread polls without sleeping
SpecLive == Init /\ [][NextLive]_vars /\ WF_vars(WaitStep) /\ SF_vars(LiveTick)

-----------------------------------------------------------------------------
\* Every configuration that set_limit accepts: limit and window may be 0, and
\* burst may be below limit.

ZeroDivisionError == "ZeroDivisionError"

\* config['limit'] / config['window'] in _check_token_bucket and in
\* get_remaining_quota divides by zero
RateDividesByZero(s) ==
    /\ Configured(s)
    /\ strategy = "token_bucket"
    /\ limits[s].window = 0

\* tokens_needed / (config['limit'] / config['window']) in get_reset_time,
\* which is reached when the stored tokens are below limit
ResetDividesByZero(s) ==
    /\ Configured(s)
    /\ strategy = "token_bucket"
    /\ buckets[s].tokens < limits[s].limit * Scale
    /\ limits[s].window = 0 \/ limits[s].limit = 0

\* the exception leaves the with block, which releases the lock, before
\* anything has been stored
raise(op, s, cost, e) ==
    /\ lock = NoThread
    /\ last' = Raised(op, s, cost, e)
    /\ UNCHANGED <<strategy, gov, now, spent, threadVars>>

AnySetLimit == \E s \in Registered, limit \in 0..MaxLimit, window \in 0..MaxWindow,
                  burst \in Bursts :
                   set_limit(s, limit, window, burst) /\ UNCHANGED admitted

AnyCheckLimit == \E s \in Registered, tokens \in Costs :
                     /\ IF RateDividesByZero(s)
                        THEN raise("check_limit", s, tokens, ZeroDivisionError)
                        ELSE check_limit(s, tokens)
                     /\ UNCHANGED admitted

AnyRemainingQuota == \E s \in Registered :
                         /\ IF RateDividesByZero(s)
                            THEN raise("get_remaining_quota", s, 0, ZeroDivisionError)
                            ELSE GetRemainingQuota(s)
                         /\ UNCHANGED admitted

AnyResetTime == \E s \in Registered :
                    /\ IF ResetDividesByZero(s)
                       THEN raise("get_reset_time", s, 0, ZeroDivisionError)
                       ELSE GetResetTime(s)
                    /\ UNCHANGED admitted

NextAny ==
    \/ AnySetLimit
    \/ AnyCheckLimit
    \/ AnyRemainingQuota
    \/ AnyResetTime
    \/ Tick

SpecAny == Init /\ [][NextAny]_vars

-----------------------------------------------------------------------------
\* Properties

\* rec is the return of check_limit(s, c) with result r
IsCheck(rec, s, c, r) ==
    /\ rec.op = "check_limit"
    /\ rec.source = s
    /\ rec.cost = c
    /\ rec.ret = r

\* the cost admitted for s at the instants t1..t2
AdmittedIn(s, t1, t2) == Sum(admitted[s], {t \in 0..MaxTime : t1 <= t /\ t <= t2})

Returns(r) == {t \in Threads : ret[t] = Some(r)}

\* C1: when NumThreads callers race on check_limit(source, 1) against a source
\* registered with limit = burst = L < NumThreads and no time passes, then once
\* all have returned exactly L of them got true and the others false, and at
\* no moment have more than L been admitted.
ExactlyLimitAdmitted ==
    Configured(SharedSource) =>
        /\ Cardinality(Returns(TRUE)) <= limits[SharedSource].limit
        /\ (\A t \in Threads : pc[t] = "done") =>
              /\ Cardinality(Returns(TRUE)) = limits[SharedSource].limit
              /\ Cardinality(Returns(FALSE)) = NumThreads - limits[SharedSource].limit

AllReturned ==
    /\ \A t \in Threads : pc[t] = "done"
    /\ Returns(FALSE) # {}
    /\ Returns(TRUE) # {}

\* C2: under sliding_window, for a source configured once, the cost admitted
\* at the instants of any interval [a, a + window] never exceeds limit.
SlidingQuotaConserved ==
    strategy = "sliding_window" =>
        \A s \in DOMAIN limits : \A a \in 0..MaxTime :
            AdmittedIn(s, a, a + limits[s].window) <= limits[s].limit

\* the window has slid: over a span longer than the window more than limit was admitted
SlidingWindowSlid ==
    /\ strategy = "sliding_window"
    /\ \E s \in DOMAIN limits :
          /\ AdmittedIn(s, 0, MaxTime) > limits[s].limit
          /\ \E c \in Costs : c > 1 /\ IsCheck(last, s, c, TRUE)

\* C3: under fixed_window every stored window has 0 <= count <= limit, and the
\* cost admitted since window_start was last set never exceeds limit.
FixedWindowBounded ==
    strategy = "fixed_window" =>
        \A s \in DOMAIN fixed_windows :
            /\ 0 <= fixed_windows[s].count
            /\ fixed_windows[s].count <= limits[s].limit
            /\ spent[s] <= limits[s].limit

\* a window that rolled over and was then used up
FixedWindowRefilled ==
    /\ strategy = "fixed_window"
    /\ \E s \in DOMAIN fixed_windows :
          /\ fixed_windows[s].window_start > 0
          /\ fixed_windows[s].count = limits[s].limit
          /\ spent[s] = limits[s].limit
          /\ \E c \in Costs : IsCheck(last, s, c, TRUE)

\* C4: under token_bucket every stored bucket has 0 <= tokens <= capacity, where
\* capacity is the burst given to set_limit (limit when it is omitted).
TokensWithinCapacity ==
    strategy = "token_bucket" =>
        \A s \in DOMAIN buckets :
            /\ buckets[s].capacity = limits[s].burst
            /\ 0 <= buckets[s].tokens
            /\ buckets[s].tokens <= buckets[s].capacity * Scale

\* C5: under token_bucket, for a source configured once, the cost admitted at
\* the instants t1..t2 never exceeds burst + (t2 - t1) * limit / window.
TokenQuotaConserved ==
    strategy = "token_bucket" =>
        \A s \in DOMAIN limits : \A t1 \in 0..MaxTime : \A t2 \in t1..MaxTime :
            AdmittedIn(s, t1, t2) * limits[s].window
                <= limits[s].burst * limits[s].window + (t2 - t1) * limits[s].limit

\* a bucket refilled at a fractional rate has admitted more than burst
TokenBucketRefilled ==
    /\ strategy = "token_bucket"
    /\ \E s \in DOMAIN limits :
          /\ limits[s].window > limits[s].limit
          /\ AdmittedIn(s, 0, MaxTime) > limits[s].burst

\* C6: a rejected check_limit on a configured source leaves get_remaining_quota,
\* read at the same instant, as it was before the call.
RejectionKeepsQuota ==
    [][\A s \in Sources : \A c \in Costs :
          (Configured(s) /\ IsCheck(last', s, c, FALSE))
              => get_remaining_quota(s)' = get_remaining_quota(s)]_vars

\* a request no larger than limit was rejected after time had passed
RejectedWithinLimit ==
    \E s \in DOMAIN limits : \E c \in Costs :
        /\ IsCheck(last, s, c, FALSE)
        /\ c <= limits[s].limit
        /\ now > 0

\* the stored algorithm state of s (an absent deque reads as empty)
StateOf(s) ==
    <<IF s \in DOMAIN buckets THEN Some(buckets[s]) ELSE None,
      WindowOf(s),
      IF s \in DOMAIN fixed_windows THEN Some(fixed_windows[s]) ELSE None>>

\* C7 as stated: a rejected check_limit leaves the stored state of the source
\* (tokens and last_refill, the timestamps, count and window_start) untouched.
RejectionLeavesStateUntouched ==
    [][\A s \in Sources : \A c \in Costs :
          (Configured(s) /\ IsCheck(last', s, c, FALSE)) => StateOf(s)' = StateOf(s)]_vars

\* C7 as amended: a rejected check_limit consumes nothing; it stores only the
\* refresh to the call time: the bucket refilled up to capacity with
\* last_refill = now, the timestamps less those older than now - window, the
\* fixed window restarted at (0, now) if it had elapsed and unchanged otherwise.
RejectionOnlyRefreshes ==
    [][\A s \in Sources : \A c \in Costs :
          (Configured(s) /\ IsCheck(last', s, c, FALSE)) =>
              /\ limits' = limits
              /\ strategy = "token_bucket" =>
                    /\ buckets'[s].tokens =
                          Min(buckets[s].capacity * Scale,
                              buckets[s].tokens
                                + ((now - buckets[s].last_refill) * limits[s].limit * Scale)
                                      \div limits[s].window)
                    /\ buckets'[s].last_refill = now
                    /\ buckets'[s].capacity = buckets[s].capacity
              /\ strategy = "sliding_window" =>
                    windows'[s] = SelectSeq(WindowOf(s),
                                            LAMBDA ts : ts >= now - limits[s].window)
              /\ strategy = "fixed_window" =>
                    fixed_windows'[s] =
                        IF now - fixed_windows[s].window_start >= limits[s].window
                        THEN [count |-> 0, window_start |-> now]
                        ELSE fixed_windows[s]]_vars

\* a rejected check has stored a partial refill
RejectedAfterRefresh ==
    /\ strategy = "token_bucket"
    /\ \E s \in DOMAIN limits : \E c \in Costs :
          /\ IsCheck(last, s, c, FALSE)
          /\ buckets[s].last_refill = now
          /\ buckets[s].tokens % Scale # 0

\* C8: an admitted check_limit(s, c) on a configured source lowers the quota
\* available at that instant by exactly c: the bucket holds the refilled tokens
\* minus c, exactly c timestamps equal to now are appended to what remains of
\* the window, count after any rollover grows by c; the configuration is unchanged.
AdmissionConsumesCost ==
    [][\A s \in Sources : \A c \in Costs :
          (Configured(s) /\ IsCheck(last', s, c, TRUE)) =>
              /\ limits' = limits
              /\ get_remaining_quota(s)' = Some(get_remaining_quota(s)[1] - c)
              /\ strategy = "token_bucket" =>
                    /\ buckets'[s].tokens =
                          Min(buckets[s].capacity * Scale,
                              buckets[s].tokens
                                + ((now - buckets[s].last_refill) * limits[s].limit * Scale)
                                      \div limits[s].window) - c * Scale
                    /\ buckets'[s].last_refill = now
                    /\ buckets'[s].capacity = buckets[s].capacity
              /\ strategy = "sliding_window" =>
                    windows'[s] = SelectSeq(WindowOf(s),
                                            LAMBDA ts : ts >= now - limits[s].window)
                                  \o [i \in 1..c |-> now]
              /\ strategy = "fixed_window" =>
                    LET elapsed == now - fixed_windows[s].window_start >= limits[s].window IN
                    /\ fixed_windows'[s].count =
                          (IF elapsed THEN 0 ELSE fixed_windows[s].count) + c
                    /\ fixed_windows'[s].window_start =
                          (IF elapsed THEN now ELSE fixed_windows[s].window_start)]_vars

\* a request of cost above one was admitted after time had passed
AdmittedLargeCost ==
    \E s \in DOMAIN limits : \E c \in Costs :
        /\ IsCheck(last, s, c, TRUE)
        /\ c > 1
        /\ now > 0

\* C9: check_limit on a source that is not registered returns true for every
\* cost and creates no state: the stored maps are as before, get_status still
\* gives the no-limit-configured marker and get_remaining_quota still None.
UnconfiguredIsOpen ==
    [][\A s \in Sources :
          (~Configured(s) /\ last'.op = "check_limit" /\ last'.source = s) =>
              /\ last'.ret = TRUE
              /\ gov' = gov
              /\ get_status(s)' = NoLimitConfigured
              /\ get_remaining_quota(s)' = None]_vars

\* the unregistered source was checked at the largest cost while another is limited
UnconfiguredChecked ==
    /\ IsCheck(last, "b", MaxCost, TRUE)
    /\ ~Configured("b")
    /\ Configured("a")

\* the number of consecutive check_limit(source, 1) calls admitted at time t
RECURSIVE UnitRun(_, _, _)
UnitRun(config, bucket, t) ==
    LET r == check_token_bucket(config, bucket, t, 1) IN
    IF r.ok THEN 1 + UnitRun(config, r.val, t) ELSE 0

\* C10: right after set_limit on a token-bucket governor exactly burst (limit,
\* when burst is omitted) consecutive check_limit(source, 1) calls are admitted.
BucketStartsFull ==
    \A s \in Sources :
        (strategy = "token_bucket" /\ last.op = "set_limit" /\ last.source = s) =>
            UnitRun(limits[s], buckets[s], now) = limits[s].burst


\* the quota of a source in its fully available state
FullQuota(s) == IF strategy = "token_bucket" THEN limits[s].burst ELSE limits[s].limit

\* the fully available state of a configured source: a bucket holding (at
\* least) capacity tokens, no recorded timestamps, a window just started with
\* count 0
FullyAvailable(s) ==
    /\ strategy = "token_bucket" =>
          /\ buckets[s].capacity = limits[s].burst
          /\ buckets[s].tokens >= buckets[s].capacity * Scale
          /\ buckets[s].last_refill = now
    /\ strategy = "sliding_window" => WindowOf(s) = <<>>
    /\ strategy = "fixed_window" => fixed_windows[s] = [count |-> 0, window_start |-> now]
    /\ get_remaining_quota(s) = Some(FullQuota(s))

\* C11: set_limit on a source that is already configured leaves it fully
\* available under its new configuration, whatever was admitted before:
\* no timestamps, count 0 with window_start = now, a full bucket, and
\* get_remaining_quota equal to the new full quota.
ReRegistrationDiscards ==
    [][\A s \in Sources :
          (Configured(s) /\ last'.op = "set_limit" /\ last'.source = s)
              => FullyAvailable(s)']_vars

\* C12: reset_limit on a configured source keeps limit, window and burst and
\* leaves the source fully available, with get_remaining_quota equal to the
\* full quota; on an unconfigured source it changes nothing.
ResetRestoresFull ==
    [][\A s \in Sources :
          (last'.op = "reset_limit" /\ last'.source = s) =>
              IF Configured(s)
              THEN limits' = limits /\ FullyAvailable(s)'
              ELSE gov' = gov]_vars


Introspections == {"get_remaining_quota", "get_reset_time", "get_status"}

\* C16: get_remaining_quota, get_reset_time and get_status leave the
\* configuration and the stored consumption state of every source as they
\* were, so every check_limit decides and stores afterwards what it would
\* have decided and stored before.
IntrospectionReadOnly ==
    [][last'.op \in Introspections =>
          /\ limits' = limits
          /\ \A s \in Sources : StateOf(s)' = StateOf(s)
          /\ \A s \in DOMAIN limits : \A c \in Costs :
                Dispatch(s, now, c)' = Dispatch(s, now, c)]_vars

\* an introspection call on a partly used source after time has passed
IntrospectedInUse ==
    /\ last.op \in Introspections
    /\ Configured(last.source)
    /\ now > 0
    /\ get_remaining_quota(last.source) # Some(FullQuota(last.source))

\* C17: for an unregistered source get_remaining_quota and get_reset_time
\* give None and get_status the error marker; for a registered one
\* get_remaining_quota gives an integer from 0 to max(limit, burst).
MarkerOrBoundedQuota ==
    \A s \in Sources :
        IF Configured(s)
        THEN /\ Len(get_remaining_quota(s)) = 1
             /\ 0 <= get_remaining_quota(s)[1]
             /\ get_remaining_quota(s)[1] <= Max(limits[s].limit, limits[s].burst)
        ELSE /\ get_remaining_quota(s) = None
             /\ get_reset_time(s) = None
             /\ get_status(s) = NoLimitConfigured

\* an exhausted registered source beside an unregistered one
ExhaustedBesideUnregistered ==
    /\ get_remaining_quota("a") = Some(0)
    /\ get_remaining_quota("b") = None
    /\ last.op = "get_remaining_quota"

\* the step consumed quota of s or re-initialised its state
ConsumesOrResets(rec, s) ==
    /\ rec.source = s
    /\ \/ rec.op \in {"set_limit", "reset_limit"}
       \/ rec.op = "check_limit" /\ rec.ret = TRUE

\* C18: under token_bucket, over every step that is not an admitted
\* check_limit, a set_limit or a reset_limit on the source (time advancing,
\* rejected checks, introspection), get_remaining_quota does not decrease
\* and stays at or below burst.
RefillMonotone ==
    [][\A s \in Sources :
          (strategy = "token_bucket" /\ Configured(s) /\ ~ConsumesOrResets(last', s)) =>
              /\ get_remaining_quota(s)'[1] >= get_remaining_quota(s)[1]
              /\ get_remaining_quota(s)'[1] <= limits[s].burst]_vars

\* a rejected check on a bucket that has refilled in part since it was emptied
RejectedWhileRefilling ==
    /\ strategy = "token_bucket"
    /\ \E s \in DOMAIN limits : \E c \in Costs :
          /\ IsCheck(last, s, c, FALSE)
          /\ get_remaining_quota(s)[1] >= 1
          /\ get_remaining_quota(s)[1] < limits[s].burst

\* C19: under fixed_window, when count = limit and at least window has
\* passed since window_start, check_limit(source, limit) is admitted and
\* leaves count = limit and window_start = the time of the call.
RolloverAdmitsFullCost ==
    [][\A s \in Sources :
          (/\ strategy = "fixed_window"
           /\ Configured(s)
           /\ fixed_windows[s].count = limits[s].limit
           /\ now - fixed_windows[s].window_start >= limits[s].window
           /\ last'.op = "check_limit"
           /\ last'.source = s
           /\ last'.cost = limits[s].limit) =>
              /\ last'.ret = TRUE
              /\ fixed_windows'[s] = [count |-> limits[s].limit, window_start |-> now]]_vars

\* a whole limit above one was admitted into a window started at the call
RolledOverAndRefilled ==
    /\ strategy = "fixed_window"
    /\ \E s \in DOMAIN limits :
          /\ limits[s].limit > 1
          /\ IsCheck(last, s, limits[s].limit, TRUE)
          /\ now >= limits[s].window
          /\ fixed_windows[s] = [count |-> limits[s].limit, window_start |-> now]

\* C20: under sliding_window a check at time u counts exactly the units
\* admitted at times t with u - t <= window: check_limit(source, c) is
\* admitted if and only if those units plus c do not exceed limit.
SlidingExpiryExact ==
    [][\A s \in Sources :
          (/\ strategy = "sliding_window"
           /\ Configured(s)
           /\ last'.op = "check_limit"
           /\ last'.source = s) =>
              (last'.ret = TRUE
                  <=> AdmittedIn(s, now - limits[s].window, now) + last'.cost
                          <= limits[s].limit)]_vars

\* a unit admitted just after limit units have expired
AdmittedAfterExpiry ==
    /\ strategy = "sliding_window"
    /\ \E s \in DOMAIN limits :
          /\ IsCheck(last, s, 1, TRUE)
          /\ now > limits[s].window
          /\ admitted[s][now - limits[s].window - 1] = limits[s].limit
          /\ AdmittedIn(s, now - limits[s].window, now) = 1

\* C13: a max_wait that was supplied, 0 included, bounds the wait: a poll of
\* wait_if_needed that is rejected once max_wait has elapsed since start_time
\* ends the call, which returns False.
DeadlineEndsWait ==
    [][(/\ waiter.pc = "deadline"
        /\ waiter.max_wait # None
        /\ now - waiter.start_time >= waiter.max_wait[1]
        /\ waiter'.pc # "deadline") =>
           (waiter'.pc = "done" /\ waiter'.ret = Some(FALSE))]_vars

\* C14: wait_if_needed returns True exactly when one of its attempts was
\* admitted; the cost was then consumed exactly once, and without a sleep when
\* the first attempt was the admitted one; a call that returns False, or that
\* has not returned, has consumed nothing; the result is always a boolean.
WaitOutcomeMatchesConsumption ==
    /\ waiter.ret \in {None, Some(TRUE), Some(FALSE)}
    /\ (waiter.pc = "done") <=> (waiter.ret # None)
    /\ waiter.admits = (IF waiter.ret = Some(TRUE) THEN 1 ELSE 0)
    /\ waiter.consumed = (IF waiter.ret = Some(TRUE) /\ ~waiter.open
                          THEN waiter.tokens ELSE 0)
    /\ (waiter.ret = Some(TRUE) /\ waiter.first = "admitted") => ~waiter.slept
    /\ waiter.open => (waiter.ret = Some(TRUE) /\ waiter.first = "admitted")

\* a call that was rejected, slept, and was admitted on a later poll
AdmittedAfterSleep ==
    /\ waiter.pc = "done"
    /\ waiter.ret = Some(TRUE)
    /\ waiter.first = "rejected"
    /\ waiter.slept
    /\ waiter.consumed = waiter.tokens
    /\ waiter.tokens > 0

\* C15: self.lock is free whenever the waiter sleeps, so that the other
\* callers' check_limit, set_limit, reset_limit and cleanup_expired can run;
\* the waiter holds the lock only inside the check_limit and get_reset_time
\* of a poll, which it enters anew on each poll.
LockFreeWhileSleeping ==
    /\ waiter.pc = "sleep" =>
          /\ lock = NoThread
          /\ ENABLED OtherCheckLimit
          /\ ENABLED OtherSetLimit
          /\ ENABLED ResetLimit
          /\ ENABLED CleanupExpired
    /\ (lock = Waiter) <=> (waiter.pc \in {"locked", "reset_locked"})

\* another caller's reset_limit has run to completion during the sleep
ResetDuringSleep ==
    /\ waiter.pc = "sleep"
    /\ last.op = "reset_limit"

\* C21: after cleanup_expired has run at time now, every registered source's
\* sliding-window sequence holds only timestamps in [now - window, now], oldest
\* first; every fixed window whose window had elapsed has count 0 and
\* window_start = now and the others are as they were; the token buckets and
\* the configurations are as they were.
CleanupPostcondition ==
    [][last'.op = "cleanup_expired" =>
          /\ limits' = limits
          /\ buckets' = buckets
          /\ \A s \in DOMAIN limits :
                /\ \A i \in 1..Len(WindowOf(s)') :
                      /\ now - limits[s].window <= WindowOf(s)'[i]
                      /\ WindowOf(s)'[i] <= now
                      /\ \A j \in i..Len(WindowOf(s)') : WindowOf(s)'[i] <= WindowOf(s)'[j]
                /\ s \in DOMAIN fixed_windows =>
                      fixed_windows'[s] =
                          IF now - fixed_windows[s].window_start >= limits[s].window
                          THEN [count |-> 0, window_start |-> now]
                          ELSE fixed_windows[s]]_vars

\* a sweep made after more than a window has passed, which kept the
\* timestamps that are exactly one window old
SweptToBoundary ==
    /\ strategy = "sliding_window"
    /\ last.op = "cleanup_expired"
    /\ \E s \in DOMAIN limits :
          /\ now > limits[s].window
          /\ Len(WindowOf(s)) = limits[s].limit
          /\ WindowOf(s)[1] = now - limits[s].window

\* the bucket's level at time now: the stored tokens plus the refill accrued
\* since last_refill, in units of 1/Scale
CurrentLevel(s) == Refilled(limits[s], buckets[s], now)

\* C22: under token_bucket get_reset_time returns the time at which the bucket
\* will be at full capacity if nothing more is consumed: with current level x
\* it returns now + (burst - x) * window / limit, and now when the bucket is
\* full.
ResetTimeIsTimeToFull ==
    [][\A s \in Sources :
          (/\ strategy = "token_bucket"
           /\ Configured(s)
           /\ last'.op = "get_reset_time"
           /\ last'.source = s) =>
              last'.ret =
                  Some(now * TimeUnit
                       + (Max(0, limits[s].burst * Scale - CurrentLevel(s))
                              * limits[s].window * LimitScale) \div limits[s].limit)]_vars

\* C25: for a configured source and a cost >= 1, check_limit(source, cost)
\* returns True if and only if get_remaining_quota(source) at that instant,
\* just before the call, is at least cost.
QuotaAgreesWithAdmission ==
    [][\A s \in Sources :
          (/\ Configured(s)
           /\ last'.op = "check_limit"
           /\ last'.source = s) =>
              (last'.ret = TRUE <=> get_remaining_quota(s)[1] >= last'.cost)]_vars

\* a request rejected although some quota, less than its cost, remains
QuotaShortOfCost ==
    \E s \in DOMAIN limits :
        /\ IsCheck(last, s, 2, FALSE)
        /\ get_remaining_quota(s) = Some(1)

\* C29: get_remaining_quota of every source is the same just before and just
\* after cleanup_expired, and a second cleanup_expired at the same instant
\* changes nothing.
CleanupQuotaNeutral ==
    [][last'.op = "cleanup_expired" =>
          /\ \A s \in Sources : get_remaining_quota(s)' = get_remaining_quota(s)
          /\ last.op = "cleanup_expired" => gov' = gov]_vars

\* a sweep that has restarted a fixed window, the full quota being available
SweptElapsedWindow ==
    /\ strategy = "fixed_window"
    /\ last.op = "cleanup_expired"
    /\ \E s \in DOMAIN limits :
          /\ now >= limits[s].window
          /\ fixed_windows[s] = [count |-> 0, window_start |-> now]
          /\ get_remaining_quota(s) = Some(limits[s].limit)

\* C26: under fixed_window, for a source configured once and never
\* re-registered or reset, the costs admitted at the instants of any interval
\* [t, t + window] sum to at most 2 * limit.
FixedBoundaryBound ==
    strategy = "fixed_window" =>
        \A s \in DOMAIN limits : \A t \in 0..MaxTime :
            AdmittedIn(s, t, t + limits[s].window) <= 2 * limits[s].limit

\* limit admitted at the end of one window and limit again at the start of
\* the next, less than a window later
TwoLimitsAcrossBoundary ==
    /\ strategy = "fixed_window"
    /\ \E s \in DOMAIN limits : \E t \in 0..MaxTime :
          /\ now - t < limits[s].window
          /\ AdmittedIn(s, t, fixed_windows[s].window_start - 1) = limits[s].limit
          /\ AdmittedIn(s, fixed_windows[s].window_start, now) = limits[s].limit
          /\ IsCheck(last, s, 1, TRUE)

ConfigOf(s) == IF Configured(s) THEN Some(limits[s]) ELSE None

Addressed == {"set_limit", "check_limit", "reset_limit",
              "get_remaining_quota", "get_reset_time", "get_status"}

\* C23: an operation addressed to one source leaves the configuration and the
\* algorithm state of every other source as they were, and with them the
\* quota and the reset time that the other source reports at that instant.
SourceIndependence ==
    [][\A s \in Sources :
          (last'.op \in Addressed /\ last'.source # s) =>
              /\ ConfigOf(s)' = ConfigOf(s)
              /\ StateOf(s)' = StateOf(s)
              /\ get_remaining_quota(s)' = get_remaining_quota(s)
              /\ get_reset_time(s)' = get_reset_time(s)]_vars

\* a request on one source is rejected, its quota used up, while the other
\* source, used as well, has quota left
ExhaustedBesideAvailable ==
    \E s \in DOMAIN limits : \E o \in DOMAIN limits :
        /\ s # o
        /\ IsCheck(last, s, 1, FALSE)
        /\ get_remaining_quota(s) = Some(0)
        /\ get_remaining_quota(o) = Some(limits[o].limit - 1)

\* the stored state of s is one that the stored configuration of s can have
\* produced at this instant: the bucket has the configured capacity and no
\* more than limit tokens, and no more than limit units are counted
Paired(s) ==
    /\ strategy = "token_bucket" =>
          /\ buckets[s].capacity = limits[s].burst
          /\ buckets[s].tokens <= limits[s].limit * Scale
    /\ strategy = "sliding_window" => Len(WindowOf(s)) <= limits[s].limit
    /\ strategy = "fixed_window" => fixed_windows[s].count <= limits[s].limit

\* C24: concurrent set_limit calls are atomic and the last one wins: whenever
\* no thread is inside the with block of set_limit, and so whenever a
\* check_limit reads them, the stored configuration and the stored algorithm
\* state of the source stem from the same set_limit call.
SetLimitAtomic ==
    (/\ Configured(SharedSource)
     /\ \A t \in Threads : pc[t] \notin {"set_limits", "set_state"}) =>
        Paired(SharedSource)

\* C27: the snapshot that get_status returns holds a limit, window and burst
\* of one set_limit call and a remaining computed against them, so that
\* remaining <= max(limit, burst), whatever set_limit calls run concurrently.
SnapshotConsistent ==
    \A t \in Threads :
        (pc[t] = "status_done" /\ "remaining" \in DOMAIN ret[t][1]) =>
            ret[t][1].remaining[1] <= Max(ret[t][1].limit, ret[t][1].burst)

\* C28: a single caller of wait_if_needed(source, cost, max_wait=None) with
\* 1 <= cost <= limit, on a source registered with burst >= limit, with no
\* other caller consuming and time advancing, eventually returns True, under
\* each strategy and from every state the source can be in.
WaitEventuallySucceeds ==
    (waiter.pc # "idle") ~> (waiter.pc = "done" /\ waiter.ret = Some(TRUE))

\* a call for the whole limit that found the quota used up, slept, and
\* returned True
WaitedForFullLimit ==
    /\ waiter.pc = "done"
    /\ waiter.ret = Some(TRUE)
    /\ waiter.slept
    /\ Configured(waiter.source)
    /\ waiter.tokens = limits[waiter.source].limit
    /\ waiter.consumed = waiter.tokens

\* C30: for every configuration that set_limit accepts, limit <= 0,
\* window <= 0 and burst < limit included, and every cost >= 1, check_limit,
\* get_remaining_quota and get_reset_time return their normal result and
\* never end in an error such as a division by zero.
NeverRaises ==
    last.op \in {"check_limit", "get_remaining_quota", "get_reset_time"} =>
        last.error = NoError

====
